---- MODULE Spec2Model ----
(***************************************************************************)
(* FlexiSN: the chameleon-hash Merkle tree (chamMerkleTree), the metadata  *)
(* publisher (cmd/send.go) and the chain-feed parser (websocket/utils.go). *)
(*                                                                         *)
(* Byte strings are sequences of numbers 0..255.  A *big.Int is the        *)
(* sequence big.Int.Bytes() returns for it: big-endian, no leading zero    *)
(* byte, the empty sequence for 0.  A *MerkleNode is an index into a heap  *)
(* (a sequence of node records); 0 is the nil pointer.                     *)
(***************************************************************************)
EXTENDS Integers, Sequences, FiniteSets, TLC

\* ---------------------------------------------------------------- bounds
MaxStreamLen == 5
MaxBlockSize == 2
GroupOrder == 5
MaxUpdates == 2
MaxMessages == 2

\* ------------------------------------------------------ program constants
DigestLen == 32
CoordLen == 32
RandSplit == 64


\* ------------------------------------------------------------ byte strings
Min(a, b) == IF a < b THEN a ELSE b

Repeat(v, n) == [i \in 1..n |-> v]

\* Go's data[lo:hi] on a slice whose length covers hi
Slice(data, lo, hi) == SubSeq(data, lo + 1, hi)

RECURSIVE StripZeros(_)
StripZeros(b) ==
    IF b = <<>> THEN <<>>
    ELSE IF b[1] = 0 THEN StripZeros(Tail(b)) ELSE b

\* new(big.Int).SetBytes(b): the integer the big-endian bytes b denote
SetBytes(b) == StripZeros(b)

RECURSIVE BytesModFrom(_, _, _, _)
BytesModFrom(b, i, acc, n) ==
    IF i > Len(b) THEN acc
    ELSE BytesModFrom(b, i + 1, (acc * 256 + b[i]) % n, n)

\* the big-endian integer b, reduced mod n
BytesMod(b, n) == BytesModFrom(b, 1, 0, n)

RECURSIVE ByteSum(_, _, _)
ByteSum(b, i, w) ==
    IF i > Len(b) THEN 0
    ELSE ((IF w THEN i ELSE 1) * b[i] + ByteSum(b, i + 1, w)) % 256

\* ----------------------------------------------------------------- SHA-256
\* crypto/sha256 is modelled as a collision-free function into DigestLen
\* bytes: the digest spells out its input.  A digest is
\*   <<1 + number of digests the input starts with, k, k bytes of input, 0...>>
\* where an input digest is written as its own first 2 + k bytes.  Inputs that
\* need more than InfoMax bytes are cut and closed by a 3-byte checksum
\* (the only place where two inputs can share a digest).
InfoMax == DigestLen - 2

IsDigest(h) ==
    /\ Len(h) = DigestLen
    /\ h[1] >= 1
    /\ h[2] <= InfoMax
    /\ \A i \in (h[2] + 3)..DigestLen : h[i] = 0

DigestInfo(h) == SubSeq(h, 1, h[2] + 2)

RECURSIVE Compress(_)
Compress(data) ==
    IF Len(data) >= DigestLen /\ IsDigest(SubSeq(data, 1, DigestLen))
    THEN DigestInfo(SubSeq(data, 1, DigestLen))
             \o Compress(SubSeq(data, DigestLen + 1, Len(data)))
    ELSE data

RECURSIVE NumDigests(_)
NumDigests(data) ==
    IF Len(data) >= DigestLen /\ IsDigest(SubSeq(data, 1, DigestLen))
    THEN 1 + NumDigests(SubSeq(data, DigestLen + 1, Len(data)))
    ELSE 0

getHash(data) ==
    LET c == Compress(data)
        body == IF Len(c) <= InfoMax THEN c
                ELSE SubSeq(c, 1, InfoMax - 3)
                       \o <<Len(c) % 256, ByteSum(c, 1, FALSE), ByteSum(c, 1, TRUE)>>
    IN  <<1 + NumDigests(data), Len(body)>> \o body
            \o Repeat(0, DigestLen - 2 - Len(body))

\* ------------------------------------------------- curve and chameleon hash
\* GetCurve, ComputeHash, VerifyHash and FindCollision are not among the
\* sources; they follow the specification (sections 4.1 and 4.2).  The curve
\* is a cyclic group of order GroupOrder with generator G; the point k*G is
\* the number k, and 0 is the point at infinity.  A point's coordinates are
\* big integers of the width of P-256 coordinates; k*G and -(k*G) share the
\* x-coordinate, and some coordinates have a leading zero byte, so that
\* their Bytes() are CoordLen - 1 long.
Scalars == 1..(GroupOrder - 1)

XCoord(k) ==
    IF k = 0 THEN <<>>
    ELSE LET m == Min(k, GroupOrder - k)
         IN  <<m>> \o Repeat(170, IF m % 2 = 0 THEN CoordLen - 2 ELSE CoordLen - 1)

YCoord(k) ==
    IF k = 0 THEN <<>>
    ELSE <<k>> \o Repeat(187, IF k % 3 = 0 THEN CoordLen - 2 ELSE CoordLen - 1)

\* the k with k*G = (x, y), or -1 when (x, y) is no point of the curve
PointLog(x, y) ==
    IF \E k \in 0..(GroupOrder - 1) : XCoord(k) = x /\ YCoord(k) = y
    THEN CHOOSE k \in 0..(GroupOrder - 1) : XCoord(k) = x /\ YCoord(k) = y
    ELSE -1

\* a scalar as a big integer of the width of a P-256 scalar, and back
ScalarBytes(v) == IF v = 0 THEN <<>> ELSE <<v>> \o Repeat(204, CoordLen - 1)

ScalarVal(b) ==
    IF b = <<>> THEN 0
    ELSE IF b[1] < GroupOrder /\ b = ScalarBytes(b[1]) THEN b[1]
    ELSE BytesMod(b, GroupOrder)

\* e = SHA-256(m || rX) mod n
HashToScalar(m, rX) == BytesMod(getHash(m \o rX), GroupOrder)

\* Q = s*G + e*P
Commit(s, e, P) == (s + e * P) % GroupOrder

\* ComputeHash(m, pubX, pubY) with the sampled k and s made explicit
ComputeHash(m, pubX, pubY, k, s) ==
    LET rX == XCoord(k)
        P == PointLog(pubX, pubY)
        Q == IF P < 0 THEN 0 ELSE Commit(s, HashToScalar(m, rX), P)
    IN  [rX |-> rX, rY |-> YCoord(k), s |-> ScalarBytes(s), hX |-> XCoord(Q)]

VerifyHash(m, rX, rY, s, pubX, pubY, hX) ==
    LET P == PointLog(pubX, pubY)
        Q == IF P < 0 THEN 0 ELSE Commit(ScalarVal(s), HashToScalar(m, rX), P)
    IN  P >= 0 /\ Q # 0 /\ XCoord(Q) = hX

\* s' = s + (e - e') * x mod n, with R' = R
FindCollision(m, rX, rY, s, hX, newM, secKey) ==
    LET e == HashToScalar(m, rX)
        e2 == HashToScalar(newM, rX)
        x == ScalarVal(secKey)
        s2 == (ScalarVal(s) + (e - e2 + GroupOrder) * x) % GroupOrder
    IN  [rX |-> rX, rY |-> rY, s |-> ScalarBytes(s2)]

\* the draws of s in ComputeHash; the draw with s*G + e*P at infinity (one in
\* GroupOrder, 2^-256 on P-256) is left out
HashDraws(m, pubX, pubY, k) ==
    {s \in Scalars :
        Commit(s, HashToScalar(m, XCoord(k)), PointLog(pubX, pubY)) # 0}

\* ------------------------------------------------------------ key material
NilPubKey == [nil |-> TRUE, pubX |-> <<>>, pubY |-> <<>>]
NilRandomNum == [nil |-> TRUE, rX |-> <<>>, rY |-> <<>>, s |-> <<>>]

\* GenerateChameleonKeyPair with the sampled private scalar x
GenerateChameleonKeyPair(x) ==
    [secKey |-> ScalarBytes(x),
     pubKey |-> [nil |-> FALSE, pubX |-> XCoord(x), pubY |-> YCoord(x)]]

PubKeySerialize(pubKey) == pubKey.pubX \o pubKey.pubY

\* data[:32] and data[32:]; a slice shorter than 32 bytes has no data[:32]
DeserializeChameleomPubKey(data) ==
    IF Len(data) < CoordLen THEN [panic |-> TRUE, key |-> NilPubKey]
    ELSE [panic |-> FALSE,
          key |-> [nil |-> FALSE,
                   pubX |-> SetBytes(Slice(data, 0, CoordLen)),
                   pubY |-> SetBytes(Slice(data, CoordLen, Len(data)))]]

RandomNumSerialize(r) == (r.rX \o r.rY) \o r.s

DeserializeChameleonRandomNum(data) ==
    IF Len(data) < RandSplit THEN [panic |-> TRUE, num |-> NilRandomNum]
    ELSE [panic |-> FALSE,
          num |-> [nil |-> FALSE,
                   rX |-> SetBytes(Slice(data, 0, CoordLen)),
                   rY |-> SetBytes(Slice(data, CoordLen, RandSplit)),
                   s |-> SetBytes(Slice(data, RandSplit, Len(data)))]]

VerifyMerkleRoot(text, hX, pubKey, randomNum) ==
    VerifyHash(text, randomNum.rX, randomNum.rY, randomNum.s,
               pubKey.pubX, pubKey.pubY, SetBytes(hX))

\* -------------------------------------------------------------- Merkle tree
\* A tree is the heap of its nodes and the index of its root.
NilTree == [nodes |-> <<>>, root |-> 0]

MerkleNode(hash, left, right) == [Hash |-> hash, Left |-> left, Right |-> right]

\* ReadBlocks that makes a block of the empty read at the end of the file
RECURSIVE ReadBlocksEmptyTail(_, _, _)
ReadBlocksEmptyTail(data, pos, bs) ==
    LET n == Min(bs, Len(data) - pos)
    IN  IF n <= 0 THEN << <<>> >>
        ELSE IF n < bs THEN <<SubSeq(data, pos + 1, pos + n)>>
        ELSE <<SubSeq(data, pos + 1, pos + n)>> \o ReadBlocksEmptyTail(data, pos + n, bs)

\* the read loop: blocks of bs bytes from position pos, the last one shorter
RECURSIVE ReadBlocks(_, _, _)
ReadBlocks(data, pos, bs) ==
    LET n == Min(bs, Len(data) - pos)
    IN  IF n <= 0 THEN <<>>
        ELSE IF n < bs THEN <<SubSeq(data, pos + 1, pos + n)>>
        ELSE <<SubSeq(data, pos + 1, pos + n)>> \o ReadBlocks(data, pos + n, bs)

\* the leaf nodes of a list of hashes, in order
LeafNodes(hashes) == [i \in 1..Len(hashes) |-> MerkleNode(hashes[i], 0, 0)]

\* PairLevel that pairs an unpaired last node with itself
RECURSIVE PairLevelDuplicating(_, _, _, _)
PairLevelDuplicating(heap, nodes, i, newLevel) ==
    IF i > Len(nodes) THEN [heap |-> heap, nodes |-> newLevel]
    ELSE LET j == IF i + 1 <= Len(nodes) THEN i + 1 ELSE i
         IN  PairLevelDuplicating(
                 Append(heap,
                        MerkleNode(getHash(heap[nodes[i]].Hash \o heap[nodes[j]].Hash),
                                   nodes[i], nodes[j])),
                 nodes, i + 2, Append(newLevel, Len(heap) + 1))

\* one pass of the inner loop from index i (1-based): pairs become parents,
\* an unpaired last node is carried over
RECURSIVE PairLevel(_, _, _, _)
PairLevel(heap, nodes, i, newLevel) ==
    IF i > Len(nodes) THEN [heap |-> heap, nodes |-> newLevel]
    ELSE IF i + 1 <= Len(nodes)
    THEN PairLevel(Append(heap,
                          MerkleNode(getHash(heap[nodes[i]].Hash \o heap[nodes[i + 1]].Hash),
                                     nodes[i], nodes[i + 1])),
                   nodes, i + 2, Append(newLevel, Len(heap) + 1))
    ELSE PairLevel(heap, nodes, i + 2, Append(newLevel, nodes[i]))

\* for len(nodes) > 2 { ... }
RECURSIVE PairLoop(_, _)
PairLoop(heap, nodes) ==
    IF Len(nodes) > 2
    THEN LET r == PairLevel(heap, nodes, 1, <<>>) IN PairLoop(r.heap, r.nodes)
    ELSE [heap |-> heap, nodes |-> nodes]

\* the root over the last level and the bytes fed to the chameleon hash;
\* with no node at all, nodes[0] is out of range
TopOf(heap, nodes) ==
    IF Len(nodes) = 1
    THEN [panic |-> FALSE, combined |-> heap[nodes[1]].Hash,
          heap |-> Append(heap, MerkleNode(<<>>, nodes[1], 0))]
    ELSE IF Len(nodes) = 0
    THEN [panic |-> TRUE, combined |-> <<>>, heap |-> heap]
    ELSE [panic |-> FALSE,
          combined |-> heap[nodes[1]].Hash \o heap[nodes[2]].Hash,
          heap |-> Append(heap, MerkleNode(<<>>, nodes[1], nodes[2]))]

\* the tree over heap whose root (the last node) carries hash
WithRootHash(heap, hash) ==
    [nodes |-> [heap EXCEPT ![Len(heap)].Hash = hash], root |-> Len(heap)]

\* the skeleton over a list of leaf hashes
Skeleton(hashes) ==
    LET leaves == LeafNodes(hashes)
        r == PairLoop(leaves, [i \in 1..Len(leaves) |-> i])
    IN  TopOf(r.heap, r.nodes)

\* the pairing loop of UpdateMerkleTree (lines 213-230), one pass from index i
RECURSIVE UpdatePairLevel(_, _, _, _)
UpdatePairLevel(heap, nodes, i, newLevel) ==
    IF i > Len(nodes) THEN [heap |-> heap, nodes |-> newLevel]
    ELSE IF i + 1 <= Len(nodes)
    THEN UpdatePairLevel(
             Append(heap,
                    MerkleNode(getHash(heap[nodes[i]].Hash \o heap[nodes[i + 1]].Hash),
                               nodes[i], nodes[i + 1])),
             nodes, i + 2, Append(newLevel, Len(heap) + 1))
    ELSE UpdatePairLevel(heap, nodes, i + 2, Append(newLevel, nodes[i]))

RECURSIVE UpdatePairLoop(_, _)
UpdatePairLoop(heap, nodes) ==
    IF Len(nodes) > 2
    THEN LET r == UpdatePairLevel(heap, nodes, 1, <<>>)
         IN  UpdatePairLoop(r.heap, r.nodes)
    ELSE [heap |-> heap, nodes |-> nodes]

\* the root of UpdateMerkleTree (lines 232-246)
UpdateTopOf(heap, nodes) ==
    IF Len(nodes) = 1
    THEN [panic |-> FALSE, combined |-> heap[nodes[1]].Hash,
          heap |-> Append(heap, MerkleNode(<<>>, nodes[1], 0))]
    ELSE IF Len(nodes) = 0
    THEN [panic |-> TRUE, combined |-> <<>>, heap |-> heap]
    ELSE [panic |-> FALSE,
          combined |-> heap[nodes[1]].Hash \o heap[nodes[2]].Hash,
          heap |-> Append(heap, MerkleNode(<<>>, nodes[1], nodes[2]))]

\* the skeleton UpdateMerkleTree makes of a list of leaf hashes
UpdateSkeleton(hashes) ==
    LET leaves == LeafNodes(hashes)
        r == UpdatePairLoop(leaves, [i \in 1..Len(leaves) |-> i])
    IN  UpdateTopOf(r.heap, r.nodes)

\* the pairing loop of RebuildMerkleTreeFromMetaData (lines 422-439), one pass from index i
RECURSIVE RebuildPairLevel(_, _, _, _)
RebuildPairLevel(heap, nodes, i, newLevel) ==
    IF i > Len(nodes) THEN [heap |-> heap, nodes |-> newLevel]
    ELSE IF i + 1 <= Len(nodes)
    THEN RebuildPairLevel(
             Append(heap,
                    MerkleNode(getHash(heap[nodes[i]].Hash \o heap[nodes[i + 1]].Hash),
                               nodes[i], nodes[i + 1])),
             nodes, i + 2, Append(newLevel, Len(heap) + 1))
    ELSE RebuildPairLevel(heap, nodes, i + 2, Append(newLevel, nodes[i]))

RECURSIVE RebuildPairLoop(_, _)
RebuildPairLoop(heap, nodes) ==
    IF Len(nodes) > 2
    THEN LET r == RebuildPairLevel(heap, nodes, 1, <<>>)
         IN  RebuildPairLoop(r.heap, r.nodes)
    ELSE [heap |-> heap, nodes |-> nodes]

\* the root of RebuildMerkleTreeFromMetaData (lines 441-455)
RebuildTopOf(heap, nodes) ==
    IF Len(nodes) = 1
    THEN [panic |-> FALSE, combined |-> heap[nodes[1]].Hash,
          heap |-> Append(heap, MerkleNode(<<>>, nodes[1], 0))]
    ELSE IF Len(nodes) = 0
    THEN [panic |-> TRUE, combined |-> <<>>, heap |-> heap]
    ELSE [panic |-> FALSE,
          combined |-> heap[nodes[1]].Hash \o heap[nodes[2]].Hash,
          heap |-> Append(heap, MerkleNode(<<>>, nodes[1], nodes[2]))]

\* the skeleton RebuildMerkleTreeFromMetaData makes of a list of leaf hashes
RebuildSkeleton(hashes) ==
    LET leaves == LeafNodes(hashes)
        r == RebuildPairLoop(leaves, [i \in 1..Len(leaves) |-> i])
    IN  RebuildTopOf(r.heap, r.nodes)

BlockHashes(blocks) == [i \in 1..Len(blocks) |-> getHash(blocks[i])]

NilBuild == [status |-> "none", root |-> NilTree, randomNum |-> NilRandomNum,
             combined |-> <<>>]

\* BuildMerkleTree with the chameleon hash taken over the SHA-256 of the top
\* digest
BuildMerkleTreeRehashed(data, pos, bs, pubKey, k, s) ==
    LET top == Skeleton(BlockHashes(ReadBlocks(data, pos, bs)))
        h == ComputeHash(getHash(top.combined), pubKey.pubX, pubKey.pubY, k, s)
    IN  IF top.panic THEN [NilBuild EXCEPT !.status = "panic"]
        ELSE [status |-> "ok",
              root |-> WithRootHash(top.heap, h.hX),
              randomNum |-> [nil |-> FALSE, rX |-> h.rX, rY |-> h.rY, s |-> h.s],
              combined |-> top.combined]

\* BuildMerkleTree whose leaves are the SHA-256 of the draw k and the block
BuildMerkleTreeSalted(data, pos, bs, pubKey, k, s) ==
    LET blocks == ReadBlocks(data, pos, bs)
        top == Skeleton([i \in 1..Len(blocks) |-> getHash(<<k>> \o blocks[i])])
        h == ComputeHash(top.combined, pubKey.pubX, pubKey.pubY, k, s)
    IN  IF top.panic THEN [NilBuild EXCEPT !.status = "panic"]
        ELSE [status |-> "ok",
              root |-> WithRootHash(top.heap, h.hX),
              randomNum |-> [nil |-> FALSE, rX |-> h.rX, rY |-> h.rY, s |-> h.s],
              combined |-> top.combined]

\* BuildMerkleTree on a file at position pos, with the draws k and s
BuildMerkleTree(data, pos, bs, pubKey, k, s) ==
    LET top == Skeleton(BlockHashes(ReadBlocks(data, pos, bs)))
        h == ComputeHash(top.combined, pubKey.pubX, pubKey.pubY, k, s)
    IN  IF top.panic THEN [NilBuild EXCEPT !.status = "panic"]
        ELSE [status |-> "ok",
              root |-> WithRootHash(top.heap, h.hX),
              randomNum |-> [nil |-> FALSE, rX |-> h.rX, rY |-> h.rY, s |-> h.s],
              combined |-> top.combined]

\* BuildMerkleTree after its read loop: the tree over the leaf hashes
TreeOver(hashes, pubKey, k, s) ==
    LET top == Skeleton(hashes)
        h == ComputeHash(top.combined, pubKey.pubX, pubKey.pubY, k, s)
    IN  IF top.panic THEN [NilBuild EXCEPT !.status = "panic"]
        ELSE [status |-> "ok",
              root |-> WithRootHash(top.heap, h.hX),
              randomNum |-> [nil |-> FALSE, rX |-> h.rX, rY |-> h.rY, s |-> h.s],
              combined |-> top.combined]

\* UpdateMerkleTree with the old and the new top digest exchanged in the call
\* of FindCollision
UpdateMerkleTreeSwapped(data, pos, bs, pubKey, secKey, prevRootHash, chameleonHash, randomNum) ==
    LET top == UpdateSkeleton(BlockHashes(ReadBlocks(data, pos, bs)))
        c == FindCollision(top.combined, randomNum.rX, randomNum.rY, randomNum.s,
                           SetBytes(prevRootHash), chameleonHash, secKey)
    IN  IF top.panic THEN [NilBuild EXCEPT !.status = "panic"]
        ELSE [status |-> "ok",
              root |-> WithRootHash(top.heap, prevRootHash),
              randomNum |-> [nil |-> FALSE, rX |-> c.rX, rY |-> c.rY, s |-> c.s],
              combined |-> top.combined]

\* UpdateMerkleTree: the same loops, then the collision
UpdateMerkleTree(data, pos, bs, pubKey, secKey, prevRootHash, chameleonHash, randomNum) ==
    LET top == UpdateSkeleton(BlockHashes(ReadBlocks(data, pos, bs)))
        c == FindCollision(chameleonHash, randomNum.rX, randomNum.rY, randomNum.s,
                           SetBytes(prevRootHash), top.combined, secKey)
    IN  IF top.panic THEN [NilBuild EXCEPT !.status = "panic"]
        ELSE [status |-> "ok",
              root |-> WithRootHash(top.heap, prevRootHash),
              randomNum |-> [nil |-> FALSE, rX |-> c.rX, rY |-> c.rY, s |-> c.s],
              combined |-> top.combined]

\* GetAllLeavesHashes: the queue of the level-order walk, front first
RECURSIVE LeavesFrom(_, _)
LeavesFrom(heap, queue) ==
    IF queue = <<>> THEN <<>>
    ELSE LET node == heap[Head(queue)]
             q1 == IF node.Left # 0 THEN Append(Tail(queue), node.Left) ELSE Tail(queue)
             q2 == IF node.Right # 0 THEN Append(q1, node.Right) ELSE q1
         IN  (IF node.Left = 0 /\ node.Right = 0 THEN <<node.Hash>> ELSE <<>>)
                 \o LeavesFrom(heap, q2)

GetAllLeavesHashes(tree) ==
    IF tree.root = 0 THEN <<>> ELSE LeavesFrom(tree.nodes, <<tree.root>>)

\* dfs of GenerateMerkleProof: the path to the first node, in preorder, whose
\* hash is target; <<>> when there is none
RECURSIVE Dfs(_, _, _, _)
Dfs(heap, node, path, target) ==
    IF node = 0 THEN <<>>
    ELSE IF heap[node].Hash = target THEN Append(path, node)
    ELSE LET l == Dfs(heap, heap[node].Left, Append(path, node), target)
         IN  IF l # <<>> THEN l
             ELSE Dfs(heap, heap[node].Right, Append(path, node), target)

\* SiblingPair with the two slots exchanged
SiblingPairSwapped(heap, path, i) ==
    LET parent == heap[path[i]]
    IN  <<IF parent.Right # 0 /\ parent.Right # path[i + 1]
          THEN heap[parent.Right].Hash ELSE <<>>,
          IF parent.Left # 0 /\ parent.Left # path[i + 1]
          THEN heap[parent.Left].Hash ELSE <<>> >>

\* the pair emitted for step i of the path
SiblingPair(heap, path, i) ==
    LET parent == heap[path[i]]
    IN  <<IF parent.Left # 0 /\ parent.Left # path[i + 1]
          THEN heap[parent.Left].Hash ELSE <<>>,
          IF parent.Right # 0 /\ parent.Right # path[i + 1]
          THEN heap[parent.Right].Hash ELSE <<>> >>

RECURSIVE Siblings(_, _, _)
Siblings(heap, path, i) ==
    IF i > Len(path) - 1 THEN <<>>
    ELSE SiblingPair(heap, path, i) \o Siblings(heap, path, i + 1)

GenerateMerkleProof(tree, target) ==
    LET path == Dfs(tree.nodes, tree.root, <<>>, target)
    IN  Siblings(tree.nodes, path, 1)

\* the loop of VerifyMerkleProof, i a 0-based index as in the source
RECURSIVE FoldProof(_, _, _)
FoldProof(merkleProof, i, currentHash) ==
    IF i < 2 THEN currentHash
    ELSE FoldProof(merkleProof, i - 2,
                   getHash(IF Len(merkleProof[i + 1]) = 0
                           THEN currentHash \o merkleProof[i + 2]
                           ELSE merkleProof[i + 1] \o currentHash))

\* "true", "false", or "panic" when merkleProof[0] or [1] is out of range
VerifyMerkleProof(rootHash, targetHash, merkleProof, pubKey, randomNum) ==
    IF Len(merkleProof) = 0 \/ (Len(merkleProof) = 1 /\ Len(merkleProof[1]) = 0)
    THEN "panic"
    ELSE LET currentHash == FoldProof(merkleProof, Len(merkleProof) - 2, targetHash)
             combined == IF Len(merkleProof[1]) = 0 /\ Len(merkleProof[2]) = 0
                         THEN currentHash
                         ELSE IF Len(merkleProof[1]) # 0
                         THEN merkleProof[1] \o currentHash
                         ELSE currentHash \o merkleProof[2]
         IN  IF VerifyMerkleRoot(combined, rootHash, pubKey, randomNum)
             THEN "true" ELSE "false"

\* ---------------------------------------------------------------- metadata
NilMetaData == [RootHash |-> <<>>, RandomNum |-> <<>>, PublicKey |-> <<>>,
                Leaves |-> <<>>]

NilRebuild == [status |-> "none", root |-> NilTree, randomNum |-> NilRandomNum,
               pubKey |-> NilPubKey]

\* the MetaData sendMetadata forms from a tree
MetaDataOf(root, randomNum, pubKey) ==
    [RootHash |-> root.nodes[root.root].Hash,
     RandomNum |-> RandomNumSerialize(randomNum),
     PublicKey |-> PubKeySerialize(pubKey),
     Leaves |-> GetAllLeavesHashes(root)]

\* RebuildMerkleTreeFromMetaData without the return on a failed verification
RebuildUnverified(metaData) ==
    LET top == RebuildSkeleton(metaData.Leaves)
        r == DeserializeChameleonRandomNum(metaData.RandomNum)
        p == DeserializeChameleomPubKey(metaData.PublicKey)
    IN  IF top.panic \/ r.panic \/ p.panic
        THEN [NilRebuild EXCEPT !.status = "panic"]
        ELSE [status |-> "ok",
              root |-> WithRootHash(top.heap, metaData.RootHash),
              randomNum |-> r.num,
              pubKey |-> p.key]

RebuildMerkleTreeFromMetaData(metaData) ==
    LET top == RebuildSkeleton(metaData.Leaves)
        r == DeserializeChameleonRandomNum(metaData.RandomNum)
        p == DeserializeChameleomPubKey(metaData.PublicKey)
    IN  IF top.panic \/ r.panic \/ p.panic
        THEN [NilRebuild EXCEPT !.status = "panic"]
        ELSE IF ~VerifyMerkleRoot(top.combined, metaData.RootHash, p.key, r.num)
        THEN [NilRebuild EXCEPT !.status = "err"]
        ELSE [status |-> "ok",
              root |-> WithRootHash(top.heap, metaData.RootHash),
              randomNum |-> r.num,
              pubKey |-> p.key]

\* whether RebuildMerkleTreeFromMetaData gets as far as VerifyMerkleRoot
ReachesVerification(metaData) ==
    /\ ~RebuildSkeleton(metaData.Leaves).panic
    /\ ~DeserializeChameleonRandomNum(metaData.RandomNum).panic
    /\ ~DeserializeChameleomPubKey(metaData.PublicKey).panic

\* ------------------------------------------------------------------- codec
\* Text is a sequence of character codes.  A JSON object is the record of its
\* fields; what is modelled is how a field's bytes become text and back.
B64Char(i) ==
    IF i < 26 THEN 65 + i
    ELSE IF i < 52 THEN 97 + (i - 26)
    ELSE IF i < 62 THEN 48 + (i - 52)
    ELSE IF i = 62 THEN 43 ELSE 47

\* encoding/base64 StdEncoding, which encoding/json applies to a []byte
RECURSIVE Base64Encode(_)
Base64Encode(b) ==
    IF Len(b) = 0 THEN <<>>
    ELSE IF Len(b) = 1
    THEN <<B64Char(b[1] \div 4), B64Char((b[1] % 4) * 16), 61, 61>>
    ELSE IF Len(b) = 2
    THEN <<B64Char(b[1] \div 4), B64Char((b[1] % 4) * 16 + b[2] \div 16),
           B64Char((b[2] % 16) * 4), 61>>
    ELSE <<B64Char(b[1] \div 4), B64Char((b[1] % 4) * 16 + b[2] \div 16),
           B64Char((b[2] % 16) * 4 + b[3] \div 64), B64Char(b[3] % 64)>>
             \o Base64Encode(SubSeq(b, 4, Len(b)))

HexDigit(v) == IF v < 10 THEN 48 + v ELSE 97 + (v - 10)

\* hex.EncodeToString
HexEncode(b) == [i \in 1..(2 * Len(b)) |->
                    IF i % 2 = 1 THEN HexDigit(b[(i + 1) \div 2] \div 16)
                    ELSE HexDigit(b[i \div 2] % 16)]

HexVal(c) ==
    IF c >= 48 /\ c <= 57 THEN c - 48
    ELSE IF c >= 97 /\ c <= 102 THEN c - 87
    ELSE IF c >= 65 /\ c <= 70 THEN c - 55
    ELSE -1

\* hex.DecodeString: an error on an odd length or a character that is no
\* hex digit
HexDecode(t) ==
    IF Len(t) % 2 = 1 \/ \E i \in 1..Len(t) : HexVal(t[i]) < 0
    THEN [err |-> TRUE, bytes |-> <<>>]
    ELSE [err |-> FALSE,
          bytes |-> [i \in 1..(Len(t) \div 2) |->
                        16 * HexVal(t[2 * i - 1]) + HexVal(t[2 * i])]]

\* json.Marshal(metaData) in sendMetadata
MarshalMetaData(metaData) ==
    [valid |-> TRUE,
     rootHash |-> Base64Encode(metaData.RootHash),
     randomNum |-> Base64Encode(metaData.RandomNum),
     publicKey |-> Base64Encode(metaData.PublicKey),
     leaves |-> [i \in 1..Len(metaData.Leaves) |-> Base64Encode(metaData.Leaves[i])]]

\* the value the parser reads: the four fields as hexadecimal text
HexMarshalMetaData(metaData) ==
    [valid |-> TRUE,
     rootHash |-> HexEncode(metaData.RootHash),
     randomNum |-> HexEncode(metaData.RandomNum),
     publicKey |-> HexEncode(metaData.PublicKey),
     leaves |-> [i \in 1..Len(metaData.Leaves) |-> HexEncode(metaData.Leaves[i])]]

\* a value that is no JSON text
InvalidValue == [MarshalMetaData(NilMetaData) EXCEPT !.valid = FALSE]

\* the chain-feed message that carries value, and a message that is no JSON
\* text
Envelope(value) == [valid |-> TRUE, params |-> [value |-> value]]

InvalidMessage == [valid |-> FALSE, params |-> [value |-> InvalidValue]]

\* ParseTxValue: log.Fatalf ends the process ("fatal") on a text that is no
\* JSON and on a field that does not decode
ParseTxValue(message) ==
    LET parseData == message.params.value
        rootHash == HexDecode(parseData.rootHash)
        randomNum == HexDecode(parseData.randomNum)
        publicKey == HexDecode(parseData.publicKey)
        leaves == [i \in 1..Len(parseData.leaves) |-> HexDecode(parseData.leaves[i])]
    IN  IF \/ ~message.valid \/ ~parseData.valid
           \/ rootHash.err \/ randomNum.err \/ publicKey.err
           \/ \E i \in 1..Len(leaves) : leaves[i].err
        THEN [status |-> "fatal", metaData |-> NilMetaData]
        ELSE [status |-> "ok",
              metaData |-> [RootHash |-> rootHash.bytes,
                            RandomNum |-> randomNum.bytes,
                            PublicKey |-> publicKey.bytes,
                            Leaves |-> [i \in 1..Len(leaves) |-> leaves[i].bytes]]]

\* ------------------------------------------------------------ metadata store
\* SaveToMemory: INSERT OR REPLACE of the value's JSON under key
SaveToMemory(kv, key, value) ==
    {e \in kv : e.key # key} \cup {[key |-> key, value |-> MarshalMetaData(value)]}

\* ------------------------------------------------------------------- state
VARIABLES
    file,       \* the input file: its bytes and the offset it is opened at
    blockSize,  \* config.BlockSize
    keys,       \* the owner's key pair
    pc,         \* where the run is
    built,      \* what BuildMerkleTree returned
    metaData,   \* the MetaData formed by sendMetadata, as the verifier gets it
    rebuilt,    \* what RebuildMerkleTreeFromMetaData returned
    proofRun,   \* a proof request: target, proof, verdict
    cur,        \* the owner's tree, randomness and top digest after updates
    upd,        \* the last UpdateMerkleTree call
    wire,       \* the published JSON and what ParseTxValue made of it
    store,      \* the in-memory kv_store of the DBManager: key and value pairs
    pump,       \* the websocket read pump: alive or not, messages read
    reader,     \* the read loop of BuildMerkleTree: offset, leaves, finished
    ctx,        \* the context of the command: cancelled, and after how many reads
    enc,        \* key material that is serialized and deserialized
    again,      \* what a second BuildMerkleTree on the same file returned
    sent,       \* the chunk loop of sendAction: its parameters and transmissions
    disks,      \* the chunk files on the peers' disks: peer, name, content
    got,        \* the chunk loop of getAction: the chunks fetched for the merge
    db          \* the DBManager: persistent table, channel, lock, PeriodicSave

vars == <<file, blockSize, keys, pc, built, metaData, rebuilt, proofRun, cur, upd, wire,
          store, pump, reader, ctx, enc, again,
                 sent, disks, got, db>>

\* the input files: for each length up to maxLen, bytes that all differ, bytes
\* that are all equal, and bytes that alternate
Streams(maxLen) ==
    UNION {{[i \in 1..m |-> i], [i \in 1..m |-> 0], [i \in 1..m |-> i % 2]} :
              m \in 0..maxLen}

\* the files of the update, tamper and codec runs: none, one, two and three
\* blocks of one byte
SmallStreams == {<<>>, <<1>>, <<0, 2>>, <<1, 2, 3>>}

NilProof == [phase |-> "none", leaf |-> 0, target |-> <<>>, proof |-> <<>>,
             verdict |-> "none"]
NilCur == [root |-> NilTree, randomNum |-> NilRandomNum, combined |-> <<>>, n |-> 0]
NilUpd == [status |-> "none", secKey |-> <<>>, root |-> NilTree,
           randomNum |-> NilRandomNum, combined |-> <<>>]
NilPump == [alive |-> TRUE, n |-> 0, last |-> "none"]
NilReader == [pos |-> 0, nodes |-> <<>>, done |-> FALSE]
NilCtx == [cancelled |-> FALSE, at |-> 0]
NilEnc == [phase |-> "none", pubKey |-> NilPubKey, randomNum |-> NilRandomNum,
           bytes |-> <<>>,
           keyBack |-> [panic |-> FALSE, key |-> NilPubKey],
           numBack |-> [panic |-> FALSE, num |-> NilRandomNum]]
NilWire == [phase |-> "none", json |-> MarshalMetaData(NilMetaData),
            status |-> "none", metaData |-> NilMetaData]

NilSent == [status |-> "none", num |-> 0, peers |-> 0, log |-> <<>>]
NilGot == [status |-> "none", chunks |-> <<>>]
NilDB == [disk |-> {}, chanClosed |-> FALSE, dbClosed |-> FALSE,
          memClosed |-> FALSE, closer |-> "idle", lock |-> "free", tick |-> FALSE,
          ticks |-> 0, saver |-> "select", rows |-> {}, before |-> {},
          during |-> {}, result |-> "none"]

\* a file opened at its start or already at its end, a block size, a key pair
InitWith(files, sizes) ==
    /\ \E data \in files : \E pos \in {0, Len(data)} :
           file = [data |-> data, pos |-> pos]
    /\ blockSize \in sizes
    /\ \E x \in Scalars : keys = GenerateChameleonKeyPair(x)
    /\ pc = "start"
    /\ built = NilBuild
    /\ metaData = NilMetaData
    /\ rebuilt = NilRebuild
    /\ proofRun = NilProof
    /\ cur = NilCur
    /\ upd = NilUpd
    /\ wire = NilWire
    /\ store = {}
    /\ pump = NilPump
    /\ reader = [NilReader EXCEPT !.pos = file.pos]
    /\ ctx = NilCtx
    /\ again = NilBuild
    /\ sent = NilSent
    /\ disks = {}
    /\ got = NilGot
    /\ db = NilDB

Init == InitWith(Streams(MaxStreamLen), 1..MaxBlockSize) /\ enc = NilEnc

InitSmall == InitWith(SmallStreams, 1..MaxBlockSize) /\ enc = NilEnc

\* coordinates as big integers: of full width, with one leading zero byte,
\* of one byte, and zero
CoordValues ==
    {<<7>> \o Repeat(170, CoordLen - 1), <<7>> \o Repeat(170, CoordLen - 2), <<7>>, <<>>}

\* the scalars s of a randomness, zero included
ScalarValues == {ScalarBytes(v) : v \in 0..(GroupOrder - 1)}

\* a public key or a randomness to serialize
InitEncoding ==
    /\ InitWith({<<1>>}, 1..MaxBlockSize)
    /\ \/ \E x \in CoordValues, y \in CoordValues :
              enc = [NilEnc EXCEPT !.pubKey = [nil |-> FALSE, pubX |-> x, pubY |-> y]]
       \/ \E x \in CoordValues, y \in CoordValues, v \in ScalarValues :
              enc = [NilEnc EXCEPT
                        !.randomNum = [nil |-> FALSE, rX |-> x, rY |-> y, s |-> v]]

\* root, randomNum, _, err := BuildMerkleTree(file, config, pubKey)
Build ==
    /\ pc = "start"
    /\ LET top == Skeleton(BlockHashes(ReadBlocks(file.data, file.pos, blockSize)))
       IN  \E k \in Scalars :
           \E s \in (IF top.panic THEN {1}
                     ELSE HashDraws(top.combined, keys.pubKey.pubX, keys.pubKey.pubY, k)) :
               built' = BuildMerkleTree(file.data, file.pos, blockSize, keys.pubKey, k, s)
    /\ pc' = IF built'.status = "ok" THEN "built" ELSE "aborted"
    /\ cur' = [root |-> built'.root, randomNum |-> built'.randomNum,
               combined |-> built'.combined, n |-> 0]
    /\ UNCHANGED <<file, blockSize, keys, metaData, rebuilt, proofRun, upd, wire,
                 store, pump, reader, ctx, enc, again,
                 sent, disks, got, db>>

RootHashOf(tree) == tree.nodes[tree.root].Hash

\* sendMetadata: the metadata of the built tree, saved under hex(root.Hash)
SendMetadata ==
    /\ pc = "built"
    /\ metaData' = MetaDataOf(built.root, built.randomNum, keys.pubKey)
    /\ store' = SaveToMemory(store, HexEncode(RootHashOf(built.root)), metaData')
    /\ pc' = "sent"
    /\ UNCHANGED <<file, blockSize, keys, built, rebuilt, proofRun, cur, upd, wire,
                 pump, reader, ctx, enc, again,
                 sent, disks, got, db>>

\* the verifier's RebuildMerkleTreeFromMetaData(&metaData)
Rebuild ==
    /\ pc \in {"sent", "tampered"}
    /\ rebuilt' = RebuildMerkleTreeFromMetaData(metaData)
    /\ pc' = IF rebuilt'.status = "panic" THEN "aborted"
             ELSE IF pc = "sent" THEN "rebuilt" ELSE "rebuiltTampered"
    /\ UNCHANGED <<file, blockSize, keys, built, metaData, proofRun, cur, upd, wire,
                 store, pump, reader, ctx, enc, again,
                 sent, disks, got, db>>

\* one byte of the published rootHash is changed on the way to the verifier
TamperVals(old) == {0, 255 - old} \ {old}

Tamper ==
    /\ pc = "sent"
    /\ \E i \in 1..Len(metaData.RootHash) : \E v \in TamperVals(metaData.RootHash[i]) :
           metaData' = [metaData EXCEPT !.RootHash[i] = v]
    /\ pc' = "tampered"
    /\ UNCHANGED <<file, blockSize, keys, built, rebuilt, proofRun, cur, upd, wire,
                 store, pump, reader, ctx, enc, again,
                 sent, disks, got, db>>

\* the lengths key material is cut to, and the byte it is extended by
CutLengths == {0, CoordLen - 1, CoordLen, RandSplit - 1}

\* the metadata reaches the verifier without leaves, with a randomNum or a
\* publicKey cut short, or with a publicKey one byte too long
Malform ==
    /\ pc = "sent"
    /\ \/ metaData' = [metaData EXCEPT !.Leaves = <<>>]
       \/ \E n \in CutLengths :
              /\ n < Len(metaData.RandomNum)
              /\ metaData' = [metaData EXCEPT !.RandomNum = Slice(metaData.RandomNum, 0, n)]
       \/ \E n \in CutLengths :
              /\ n < Len(metaData.PublicKey)
              /\ metaData' = [metaData EXCEPT !.PublicKey = Slice(metaData.PublicKey, 0, n)]
       \/ metaData' = [metaData EXCEPT !.PublicKey = Append(metaData.PublicKey, 0)]
    /\ pc' = "tampered"
    /\ UNCHANGED <<file, blockSize, keys, built, rebuilt, proofRun, cur, upd, wire,
                 store, pump, reader, ctx, enc, again,
                 sent, disks, got, db>>

\* the hashes a proof is asked for: every node of the tree, the root
\* included, and a digest that is in no tree
AbsentHash == getHash(<<255>>)

Targets(tree) == {tree.nodes[i].Hash : i \in 1..Len(tree.nodes)} \cup {AbsentHash}

\* the leaves a request for hash h can be meant for, by their place in the
\* stream (the i-th leaf is the i-th node); 0 when h is no leaf's hash
RequestedLeaves(tree, h) ==
    LET meant == {i \in 1..Len(tree.nodes) :
                    /\ tree.nodes[i].Left = 0
                    /\ tree.nodes[i].Right = 0
                    /\ tree.nodes[i].Hash = h}
    IN  IF meant = {} THEN {0} ELSE meant

\* proofs := GenerateMerkleProof(root, targetHash)
Prove ==
    /\ pc = "built"
    /\ \E h \in Targets(built.root) : \E i \in RequestedLeaves(built.root, h) :
           proofRun' = [phase |-> "proved", leaf |-> i, target |-> h,
                        proof |-> GenerateMerkleProof(built.root, h),
                        verdict |-> "none"]
    /\ pc' = "proved"
    /\ UNCHANGED <<file, blockSize, keys, built, metaData, rebuilt, cur, upd, wire,
                 store, pump, reader, ctx, enc, again,
                 sent, disks, got, db>>

\* VerifyMerkleProof(root.Hash, targetHash, proofs, pubKey, randomNum)
Verify ==
    /\ pc = "proved"
    /\ proofRun' = [proofRun EXCEPT
                       !.phase = "verified",
                       !.verdict = VerifyMerkleProof(RootHashOf(built.root), proofRun.target,
                                                     proofRun.proof, keys.pubKey,
                                                     built.randomNum)]
    /\ pc' = IF proofRun'.verdict = "panic" THEN "aborted" ELSE "verified"
    /\ UNCHANGED <<file, blockSize, keys, built, metaData, rebuilt, cur, upd, wire,
                 store, pump, reader, ctx, enc, again,
                 sent, disks, got, db>>

\* UpdateMerkleTree on a new file, with secKey, fed the owner's current root
\* hash, top digest and randomness
UpdateWith(secKey) ==
    /\ pc = "built"
    /\ cur.n < MaxUpdates
    /\ \E data \in SmallStreams :
           upd' = [secKey |-> secKey] @@
                  UpdateMerkleTree(data, 0, blockSize, keys.pubKey, secKey,
                                   RootHashOf(cur.root), cur.combined, cur.randomNum)
    /\ IF upd'.status = "ok"
       THEN /\ cur' = [root |-> upd'.root, randomNum |-> upd'.randomNum,
                       combined |-> upd'.combined, n |-> cur.n + 1]
            /\ pc' = pc
       ELSE /\ cur' = cur
            /\ pc' = "aborted"
    /\ UNCHANGED <<file, blockSize, keys, built, metaData, rebuilt, proofRun, wire,
                 store, pump, reader, ctx, enc, again,
                 sent, disks, got, db>>

\* the owner updates: the secret key is the one of the key pair
Update == UpdateWith(keys.secKey)

\* an update with any secret key of the curve
UpdateAnyKey == \E x \in Scalars : UpdateWith(ScalarBytes(x))

\* jsonData, err := json.Marshal(metaData), sent as the transaction's value
Publish ==
    /\ pc = "sent"
    /\ wire' = [wire EXCEPT !.phase = "published", !.json = MarshalMetaData(metaData)]
    /\ pc' = "published"
    /\ UNCHANGED <<file, blockSize, keys, built, metaData, rebuilt, proofRun, cur, upd,
                 store, pump, reader, ctx, enc, again,
                 sent, disks, got, db>>

\* readPump: metaData, err := ParseTxValue(string(message))
Parse ==
    /\ pc = "published"
    /\ LET r == ParseTxValue(Envelope(wire.json))
       IN  wire' = [wire EXCEPT !.phase = "parsed", !.status = r.status,
                                !.metaData = r.metaData]
    /\ pc' = IF wire'.status = "fatal" THEN "aborted" ELSE "parsed"
    /\ UNCHANGED <<file, blockSize, keys, built, metaData, rebuilt, proofRun, cur, upd,
                 store, pump, reader, ctx, enc, again,
                 sent, disks, got, db>>

\* the messages of the chain feed: no JSON, a value that is no JSON, the
\* metadata with hexadecimal fields, and the value sendMetadata published
FeedMessages ==
    {InvalidMessage, Envelope(InvalidValue), Envelope(HexMarshalMetaData(metaData)),
     Envelope(MarshalMetaData(metaData))}

\* one round of readPump: a message is read, parsed and saved under
\* string(metaData.RootHash); log.Fatalf in ParseTxValue ends the process
ReadPump ==
    /\ pc # "aborted"
    /\ pump.alive
    /\ pump.n < MaxMessages
    /\ \E message \in FeedMessages :
           LET r == ParseTxValue(message)
           IN  IF r.status = "fatal"
               THEN /\ pump' = [alive |-> FALSE, n |-> pump.n + 1, last |-> "fatal"]
                    /\ pc' = "aborted"
                    /\ store' = store
               ELSE /\ pump' = [pump EXCEPT !.n = pump.n + 1, !.last = "saved"]
                    /\ pc' = pc
                    /\ store' = SaveToMemory(store, r.metaData.RootHash, r.metaData)
    /\ UNCHANGED <<file, blockSize, keys, built, metaData, rebuilt, proofRun, cur, upd,
                 wire, reader, ctx, enc, again,
                 sent, disks, got, db>>

\* readPump: ReadMessage fails and the pump returns
ReadError ==
    /\ pc # "aborted"
    /\ pump.alive
    /\ pump' = [pump EXCEPT !.alive = FALSE, !.last = "closed"]
    /\ UNCHANGED <<file, blockSize, keys, pc, built, metaData, rebuilt, proofRun, cur,
                 upd, wire, store, reader, ctx, enc, again,
                 sent, disks, got, db>>

Next == Build \/ SendMetadata \/ Rebuild

Spec == Init /\ [][Next]_vars

NextTamper == Build \/ SendMetadata \/ Tamper \/ Rebuild

SpecTamper == InitSmall /\ [][NextTamper]_vars

NextProof == Build \/ Prove \/ Verify

SpecProof == Init /\ [][NextProof]_vars

NextUpdate == Build \/ Update

SpecUpdate == InitSmall /\ [][NextUpdate]_vars

NextTrapdoor == Build \/ UpdateAnyKey

SpecTrapdoor == InitSmall /\ [][NextTrapdoor]_vars

NextCodec == Build \/ SendMetadata \/ Publish \/ Parse

SpecCodec == InitSmall /\ [][NextCodec]_vars

\* one round of the read loop of BuildMerkleTree: file.Read(buffer), a leaf
\* for the bytes read, and the two exits of the loop
ReadBlock ==
    /\ pc = "start"
    /\ ~reader.done
    /\ LET n == Min(blockSize, Len(file.data) - reader.pos)
       IN  reader' =
               IF n <= 0 THEN [reader EXCEPT !.done = TRUE]
               ELSE [pos |-> reader.pos + n,
                     nodes |-> Append(reader.nodes,
                                      getHash(SubSeq(file.data, reader.pos + 1,
                                                     reader.pos + n))),
                     done |-> n < blockSize]
    /\ UNCHANGED <<file, blockSize, keys, pc, built, metaData, rebuilt, proofRun, cur,
                 upd, wire, store, pump, ctx, enc, again,
                 sent, disks, got, db>>

\* the context of sendAction is cancelled while BuildMerkleTree runs
CancelCtx ==
    /\ pc = "start"
    /\ ~ctx.cancelled
    /\ ctx' = [cancelled |-> TRUE, at |-> Len(reader.nodes)]
    /\ UNCHANGED <<file, blockSize, keys, pc, built, metaData, rebuilt, proofRun, cur,
                 upd, wire, store, pump, reader, enc, again,
                 sent, disks, got, db>>

\* BuildMerkleTree after the read loop: pairing, root, chameleon hash, return
FinishBuild ==
    /\ pc = "start"
    /\ reader.done
    /\ LET top == Skeleton(reader.nodes)
       IN  \E k \in Scalars :
           \E s \in (IF top.panic THEN {1}
                     ELSE HashDraws(top.combined, keys.pubKey.pubX, keys.pubKey.pubY, k)) :
               built' = TreeOver(reader.nodes, keys.pubKey, k, s)
    /\ pc' = IF built'.status = "ok" THEN "built" ELSE "aborted"
    /\ cur' = [root |-> built'.root, randomNum |-> built'.randomNum,
               combined |-> built'.combined, n |-> 0]
    /\ UNCHANGED <<file, blockSize, keys, metaData, rebuilt, proofRun, upd, wire,
                 store, pump, reader, ctx, enc, again,
                 sent, disks, got, db>>

\* a second run of BuildMerkleTree on the same bytes with the same block
\* size, under any public key and with its own draws
BuildAgain ==
    /\ pc = "built"
    /\ again.status = "none"
    /\ LET top == Skeleton(BlockHashes(ReadBlocks(file.data, file.pos, blockSize)))
       IN  \E x \in Scalars : \E k \in Scalars :
           LET pubKey == GenerateChameleonKeyPair(x).pubKey
           IN  \E s \in HashDraws(top.combined, pubKey.pubX, pubKey.pubY, k) :
                   again' = BuildMerkleTree(file.data, file.pos, blockSize, pubKey, k, s)
    /\ UNCHANGED <<file, blockSize, keys, pc, built, metaData, rebuilt, proofRun, cur,
                 upd, wire, store, pump, reader, ctx, enc, sent, disks, got, db>>

NextAgain == Build \/ BuildAgain

SpecAgain == InitSmall /\ [][NextAgain]_vars

NextCancel == ReadBlock \/ CancelCtx \/ FinishBuild

SpecCancel == Init /\ [][NextCancel]_vars

\* PublicKey: pubKey.Serialize()
SerializeKey ==
    /\ enc.phase = "none"
    /\ ~enc.pubKey.nil
    /\ enc' = [enc EXCEPT !.phase = "keyEncoded", !.bytes = PubKeySerialize(enc.pubKey)]
    /\ UNCHANGED <<file, blockSize, keys, pc, built, metaData, rebuilt, proofRun, cur,
                 upd, wire, store, pump, reader, ctx, again,
                 sent, disks, got, db>>

\* pubKey := DeserializeChameleomPubKey(metaData.PublicKey)
DeserializeKey ==
    /\ enc.phase = "keyEncoded"
    /\ enc' = [enc EXCEPT !.phase = "keyDecoded",
                          !.keyBack = DeserializeChameleomPubKey(enc.bytes)]
    /\ UNCHANGED <<file, blockSize, keys, pc, built, metaData, rebuilt, proofRun, cur,
                 upd, wire, store, pump, reader, ctx, again,
                 sent, disks, got, db>>

\* RandomNum: randomNum.Serialize()
SerializeNum ==
    /\ enc.phase = "none"
    /\ ~enc.randomNum.nil
    /\ enc' = [enc EXCEPT !.phase = "numEncoded",
                          !.bytes = RandomNumSerialize(enc.randomNum)]
    /\ UNCHANGED <<file, blockSize, keys, pc, built, metaData, rebuilt, proofRun, cur,
                 upd, wire, store, pump, reader, ctx, again,
                 sent, disks, got, db>>

\* randomNum := DeserializeChameleonRandomNum(metaData.RandomNum)
DeserializeNum ==
    /\ enc.phase = "numEncoded"
    /\ enc' = [enc EXCEPT !.phase = "numDecoded",
                          !.numBack = DeserializeChameleonRandomNum(enc.bytes)]
    /\ UNCHANGED <<file, blockSize, keys, pc, built, metaData, rebuilt, proofRun, cur,
                 upd, wire, store, pump, reader, ctx, again,
                 sent, disks, got, db>>

NextEncoding == SerializeKey \/ DeserializeKey \/ SerializeNum \/ DeserializeNum

SpecEncoding == InitEncoding /\ [][NextEncoding]_vars

NextMalformed == Build \/ SendMetadata \/ Malform \/ Rebuild

SpecMalformed == InitSmall /\ [][NextMalformed]_vars

NextFeed == Build \/ SendMetadata \/ ReadPump \/ ReadError

SpecFeed == InitSmall /\ [][NextFeed]_vars

\* ------------------------------------------------------- chunks in the swarm
MaxPeers == 2
MaxNum == 2

\* receiveFile on a peer: os.Create of the named file, then the stream's bytes
ReceiveFile(dsk, peer, name, content) ==
    {e \in dsk : ~(e.peer = peer /\ e.name = name)}
        \cup {[peer |-> peer, name |-> name, content |-> content]}

\* the peer loop of sendAction for one chunk: peers p..k, numTemp sends left,
\* the temp file open or already closed and removed.  A transmission from the
\* closed file fails in io.Copy after the name was written to the stream.
RECURSIVE SendToPeers(_, _, _, _, _, _, _, _, _)
SendToPeers(i, name, content, full, k, p, numTemp, open, log) ==
    IF p > k \/ numTemp = 0 THEN [err |-> FALSE, log |-> log]
    ELSE IF ~open
    THEN [err |-> TRUE,
          log |-> Append(log, [i |-> i, name |-> name, content |-> <<>>,
                               peer |-> p, err |-> TRUE])]
    ELSE LET done == Append(log, [i |-> i, name |-> name, content |-> content,
                                  peer |-> p, err |-> FALSE])
         IN  IF ~full THEN [err |-> FALSE, log |-> done]
             ELSE SendToPeers(i, name, content, full, k, p + 1, numTemp - 1, FALSE, done)

\* the chunk loop of sendAction: the i-th leaf of GetAllLeavesHashes names the
\* bytes of the next fileBuf.Read
RECURSIVE SendChunks(_, _, _, _, _, _, _, _)
SendChunks(leaves, i, data, pos, bs, k, num, log) ==
    IF i > Len(leaves) THEN [status |-> "ok", log |-> log]
    ELSE LET n == Min(bs, Len(data) - pos)
         IN  IF n <= 0 THEN [status |-> "ok", log |-> log]
             ELSE LET r == SendToPeers(i, HexEncode(leaves[i]),
                                       SubSeq(data, pos + 1, pos + n), n = bs,
                                       k, 1, num, TRUE, log)
                  IN  IF r.err THEN [status |-> "err", log |-> r.log]
                      ELSE SendChunks(leaves, i + 1, data, pos + n, bs, k, num, r.log)

\* what io.Copy reads from the stream after a bufio.Reader on the same stream
\* has read the first line: the reader's buffer keeps the bytes that arrived
\* together with the line, so the copy gets the content without the first d
\* bytes, for any d (the chunks here are shorter than the reader's buffer)
Delivered(content) ==
    {SubSeq(content, d + 1, Len(content)) : d \in 0..Len(content)}

\* the peers' disks the transmissions of a log can leave
RECURSIVE DisksAfter(_, _)
DisksAfter(dsk, log) ==
    IF log = <<>> THEN {dsk}
    ELSE UNION {DisksAfter(ReceiveFile(dsk, Head(log).peer, Head(log).name, c), Tail(log)) :
                   c \in Delivered(Head(log).content)}

\* step 3 of sendAction, after file.Seek(0, 0), with k peers and parameter num
SendAction ==
    /\ pc \in {"sent", "rebuilt"}
    /\ sent.status = "none"
    /\ \E k \in 0..MaxPeers : \E num \in 0..MaxNum :
           LET r == SendChunks(GetAllLeavesHashes(built.root), 1, file.data, 0,
                               blockSize, k, num, <<>>)
           IN  /\ sent' = [status |-> r.status, num |-> num, peers |-> k, log |-> r.log]
               /\ disks' \in DisksAfter(disks, r.log)
    /\ UNCHANGED <<file, blockSize, keys, pc, built, metaData, rebuilt, proofRun, cur,
                 upd, wire, store, pump, reader, ctx, enc, again, got, db>>

\* GetFileHandler on a peer: the content of the named file, if it is there
Served(dsk, peer, name) == {e.content : e \in {d \in dsk : d.peer = peer /\ d.name = name}}

\* the lists of peers GetClosestPeers can return to the requester
PeerLists ==
    {l \in UNION {[1..n -> 1..MaxPeers] : n \in 0..MaxPeers} :
        \A i, j \in 1..Len(l) : l[i] = l[j] => i = j}

\* the peer loop of getAction: the first of the peers from p on that has the
\* file
RECURSIVE FetchFrom(_, _, _, _)
FetchFrom(dsk, name, peers, p) ==
    IF p > Len(peers) THEN [find |-> FALSE, content |-> <<>>]
    ELSE IF Served(dsk, peers[p], name) # {}
    THEN [find |-> TRUE, content |-> CHOOSE c \in Served(dsk, peers[p], name) : TRUE]
    ELSE FetchFrom(dsk, name, peers, p + 1)

\* the leaf loop of getAction: a temp file per leaf, in the order of
\* GetAllLeavesHashes, filled by handleFileTransfer
RECURSIVE GetChunks(_, _, _, _, _)
GetChunks(leaves, i, dsk, peers, chunks) ==
    IF i > Len(leaves) THEN {[status |-> "ok", chunks |-> chunks]}
    ELSE LET r == FetchFrom(dsk, HexEncode(leaves[i]), peers, 1)
         IN  IF ~r.find THEN {[status |-> "err", chunks |-> chunks]}
             ELSE UNION {GetChunks(leaves, i + 1, dsk, peers,
                                   Append(chunks, [leaf |-> leaves[i], content |-> c])) :
                            c \in Delivered(r.content)}

\* mergeFiles: the temp files one after the other
RECURSIVE mergeFiles(_)
mergeFiles(chunks) ==
    IF chunks = <<>> THEN <<>> ELSE Head(chunks).content \o mergeFiles(Tail(chunks))

\* steps 2 and 3 of getAction on the rebuilt tree
GetAction ==
    /\ pc = "rebuilt"
    /\ rebuilt.status = "ok"
    /\ got.status = "none"
    /\ \E peers \in PeerLists :
           got' \in GetChunks(GetAllLeavesHashes(rebuilt.root), 1, disks, peers, <<>>)
    /\ UNCHANGED <<file, blockSize, keys, pc, built, metaData, rebuilt, proofRun, cur,
                 upd, wire, store, pump, reader, ctx, enc, again, sent, disks, db>>

NextSwarm == Build \/ SendMetadata \/ SendAction \/ Rebuild \/ GetAction

SpecSwarm == InitSmall /\ [][NextSwarm]_vars

\* ------------------------------------------------------------- the DBManager
MaxTicks == 2

\* the keys and values of SaveToMemory calls
StoreKeys == {<<97>>, <<98>>}
StoreValues == {[NilMetaData EXCEPT !.RootHash = <<v>>] : v \in 1..2}

\* INSERT OR REPLACE INTO kv_store of one row
InsertOrReplace(kv, row) == {e \in kv : e.key # row.key} \cup {row}

\* SaveToMemory(key, value) by a handler: under the lock; the Exec fails on a
\* closed memory database
SaveMeta ==
    /\ db.lock = "free"
    /\ \E key \in StoreKeys : \E value \in StoreValues :
           store' = IF db.memClosed THEN store ELSE SaveToMemory(store, key, value)
    /\ UNCHANGED <<file, blockSize, keys, pc, built, metaData, rebuilt, proofRun, cur,
                 upd, wire, pump, reader, ctx, enc, again, sent, disks, got, db>>

\* the ticker of PeriodicSave puts a tick in its channel
Tick ==
    /\ db.saver # "returned"
    /\ ~db.tick
    /\ db.ticks < MaxTicks
    /\ db' = [db EXCEPT !.tick = TRUE, !.ticks = @ + 1]
    /\ UNCHANGED <<file, blockSize, keys, pc, built, metaData, rebuilt, proofRun, cur,
                 upd, wire, store, pump, reader, ctx, enc, again, sent, disks, got>>

\* PeriodicSave: select takes case <-ticker.C, whether or not closeChan is
\* closed as well, and calls SaveToDB
SelectTick ==
    /\ db.saver = "select"
    /\ db.tick
    /\ db' = [db EXCEPT !.tick = FALSE, !.saver = "lock"]
    /\ UNCHANGED <<file, blockSize, keys, pc, built, metaData, rebuilt, proofRun, cur,
                 upd, wire, store, pump, reader, ctx, enc, again, sent, disks, got>>

\* PeriodicSave: select takes case <-m.closeChan and returns
SelectClose ==
    /\ db.saver = "select"
    /\ db.chanClosed
    /\ db' = [db EXCEPT !.saver = "returned"]
    /\ UNCHANGED <<file, blockSize, keys, pc, built, metaData, rebuilt, proofRun, cur,
                 upd, wire, store, pump, reader, ctx, enc, again, sent, disks, got>>

\* SaveToDB: m.lock.Lock()
SaveLock ==
    /\ db.saver = "lock"
    /\ db.lock = "free"
    /\ db' = [db EXCEPT !.lock = "saver", !.saver = "delete", !.before = db.disk,
                        !.during = store, !.result = "none"]
    /\ UNCHANGED <<file, blockSize, keys, pc, built, metaData, rebuilt, proofRun, cur,
                 upd, wire, store, pump, reader, ctx, enc, again, sent, disks, got>>

\* SaveToDB returns err: the deferred rows.Close and Unlock
SaveFailed == [db EXCEPT !.lock = "free", !.saver = "select", !.rows = {},
                         !.result = "err"]

\* SaveToDB: DELETE FROM kv_store on the persistent database; the Exec fails
\* on a closed database and can fail on an open one
SaveDelete ==
    /\ db.saver = "delete"
    /\ \E fails \in {db.dbClosed, TRUE} :
           db' = IF fails THEN SaveFailed
                 ELSE [db EXCEPT !.disk = {}, !.saver = "query"]
    /\ UNCHANGED <<file, blockSize, keys, pc, built, metaData, rebuilt, proofRun, cur,
                 upd, wire, store, pump, reader, ctx, enc, again, sent, disks, got>>

\* SaveToDB: SELECT key, value FROM kv_store on the memory database
SaveQuery ==
    /\ db.saver = "query"
    /\ \E fails \in {db.memClosed, TRUE} :
           db' = IF fails THEN SaveFailed
                 ELSE [db EXCEPT !.rows = store, !.saver = "copy"]
    /\ UNCHANGED <<file, blockSize, keys, pc, built, metaData, rebuilt, proofRun, cur,
                 upd, wire, store, pump, reader, ctx, enc, again, sent, disks, got>>

\* SaveToDB: one round of rows.Next, Scan and INSERT OR REPLACE, and the
\* return of nil after the last row
SaveCopy ==
    /\ db.saver = "copy"
    /\ IF db.rows = {}
       THEN db' = [db EXCEPT !.lock = "free", !.saver = "select", !.result = "ok"]
       ELSE \E row \in db.rows : \E fails \in {db.dbClosed, TRUE} :
                db' = IF fails THEN SaveFailed
                      ELSE [db EXCEPT !.disk = InsertOrReplace(db.disk, row),
                                      !.rows = db.rows \ {row}]
    /\ UNCHANGED <<file, blockSize, keys, pc, built, metaData, rebuilt, proofRun, cur,
                 upd, wire, store, pump, reader, ctx, enc, again, sent, disks, got>>

\* CloseDB: close(m.closeChan)
CloseChan ==
    /\ db.closer = "idle"
    /\ db' = [db EXCEPT !.chanClosed = TRUE, !.closer = "chan"]
    /\ UNCHANGED <<file, blockSize, keys, pc, built, metaData, rebuilt, proofRun, cur,
                 upd, wire, store, pump, reader, ctx, enc, again, sent, disks, got>>

\* CloseDB: m.db.Close()
CloseDisk ==
    /\ db.closer = "chan"
    /\ db' = [db EXCEPT !.dbClosed = TRUE, !.closer = "db"]
    /\ UNCHANGED <<file, blockSize, keys, pc, built, metaData, rebuilt, proofRun, cur,
                 upd, wire, store, pump, reader, ctx, enc, again, sent, disks, got>>

\* CloseDB: m.memoryDB.Close()
CloseMemory ==
    /\ db.closer = "db"
    /\ db' = [db EXCEPT !.memClosed = TRUE, !.closer = "done"]
    /\ UNCHANGED <<file, blockSize, keys, pc, built, metaData, rebuilt, proofRun, cur,
                 upd, wire, store, pump, reader, ctx, enc, again, sent, disks, got>>

\* the manager of one node: one file, the store empty as NewDBManager found it
InitStore == InitWith({<<1>>}, {1}) /\ enc = NilEnc

NextStore == SaveMeta \/ Tick \/ SelectTick \/ SelectClose \/ SaveLock \/ SaveDelete
                 \/ SaveQuery \/ SaveCopy \/ CloseChan \/ CloseDisk \/ CloseMemory

SpecStore == InitStore /\ [][NextStore]_vars

\* ------------------------------------------------------------------ claims
\* the blocks BuildMerkleTree read from the file, and their SHA-256
BlocksRead == ReadBlocks(file.data, file.pos, blockSize)

Range(f) == {f[i] : i \in 1..Len(f)}

\* C1: the metadata sendMetadata forms from a built tree is accepted by
\* RebuildMerkleTreeFromMetaData, which returns a root with the built
\* root's hash, for every leaf count and key pair.
C1_BuildRebuildRoundTrip ==
    rebuilt.status # "none" =>
        /\ rebuilt.status = "ok"
        /\ RootHashOf(rebuilt.root) = RootHashOf(built.root)

\* C2: GetAllLeavesHashes of a built tree is the sequence of the SHA-256 of
\* the blocks, in the order they were read.
C2_LeafOrdering ==
    pc = "sent" => metaData.Leaves = BlockHashes(BlocksRead)

\* C3: the proof generated for a leaf hash of a built tree verifies: the
\* verdict is true, neither false nor an abort.
C3_ProofCompleteness ==
    (proofRun.phase = "verified" /\ proofRun.target \in Range(GetAllLeavesHashes(built.root)))
        => proofRun.verdict = "true"

\* C3 witness: a verified proof of three pairs for a leaf of a tree of five
\* leaves.
C3_Witness ==
    /\ proofRun.phase = "verified"
    /\ proofRun.verdict = "true"
    /\ proofRun.target \in Range(GetAllLeavesHashes(built.root))
    /\ Len(BlocksRead) = 5
    /\ Len(proofRun.proof) = 6

\* C4: for a hash that is no leaf hash of the built tree (an internal
\* node's hash, the root hash, a hash not in the tree) the generated proof
\* is rejected: the verdict is false.
C4_ProofSoundness ==
    (proofRun.phase = "verified" /\ proofRun.target \notin Range(GetAllLeavesHashes(built.root)))
        => proofRun.verdict = "false"

\* C5: UpdateMerkleTree on any new stream, with the matching secret key and
\* the build's root hash, top digest and randomness, returns a root with the
\* built root's hash and a randomness under which the new top digest
\* verifies against that hash.
C5_CollisionStability ==
    upd.status # "none" =>
        /\ upd.status = "ok"
        /\ RootHashOf(upd.root) = RootHashOf(built.root)
        /\ VerifyMerkleRoot(upd.combined, RootHashOf(built.root), keys.pubKey,
                            upd.randomNum)

\* C6: after the build and after every update by the owner, the root hash
\* is the original root hash and the current top digest verifies against it
\* under the public key and the current randomness.
C6_OwnerLifecycle ==
    cur.root.root # 0 =>
        /\ RootHashOf(cur.root) = RootHashOf(built.root)
        /\ VerifyMerkleRoot(cur.combined, RootHashOf(cur.root), keys.pubKey,
                            cur.randomNum)

\* C6 witness: two updates were made, and the top digest and the randomness
\* are no longer those of the build.
C6_Witness ==
    /\ cur.n = 2
    /\ cur.combined # built.combined
    /\ cur.randomNum # built.randomNum
    /\ upd.combined = cur.combined

\* C7: what ParseTxValue makes of the JSON sendMetadata publishes is the
\* published metadata, field for field.
C7_CodecRoundTrip ==
    wire.phase = "parsed" =>
        /\ wire.status = "ok"
        /\ wire.metaData = metaData

\* C8: with one byte of rootHash changed, RebuildMerkleTreeFromMetaData
\* returns the verification error and nil for the root, the randomness and
\* the public key.
C8_TamperDetection ==
    (rebuilt.status # "none" /\ metaData.RootHash # RootHashOf(built.root)) =>
        /\ rebuilt.status = "err"
        /\ rebuilt.root = NilTree
        /\ rebuilt.randomNum = NilRandomNum
        /\ rebuilt.pubKey = NilPubKey

\* C8 witness: the rebuild of tampered metadata failed, where the metadata
\* as sent is accepted.
C8_Witness ==
    /\ pc = "rebuiltTampered"
    /\ rebuilt.status = "err"
    /\ RebuildMerkleTreeFromMetaData(
           MetaDataOf(built.root, built.randomNum, keys.pubKey)).status = "ok"

\* C9: on a stream of zero blocks BuildMerkleTree returns an error and no
\* tree; it does not abort.
C9_EmptyStreamIsError ==
    (built.status # "none" /\ BlocksRead = <<>>) =>
        /\ built.status = "err"
        /\ built.root = NilTree

\* C10: an UpdateMerkleTree call with a secret key that is not the key
\* pair's, whose result does not verify against the previous root hash,
\* returns an error instead of that result.
C10_InvalidTrapdoorReported ==
    (/\ upd.status \in {"ok", "err"}
     /\ upd.secKey # keys.secKey
     /\ ~VerifyMerkleRoot(upd.combined, RootHashOf(built.root), keys.pubKey,
                          upd.randomNum))
        => upd.status = "err"

\* C11: no message drives the metadata parser into ending the process: a
\* malformed message is an error returned to the read pump, which stays able
\* to read the next message.
C11_ParserNeverAborts ==
    pump.last # "fatal"

\* C18: every entry of the metadata store is stored under the hexadecimal
\* text of its own root hash, whether sendMetadata or the read pump saved it.
C18_CacheKeyIsHexRootHash ==
    \A e \in store :
        /\ ~HexDecode(e.key).err
        /\ e.value.rootHash = Base64Encode(HexDecode(e.key).bytes)
        /\ e.key = HexEncode(HexDecode(e.key).bytes)

\* C12: RebuildMerkleTreeFromMetaData on metadata without leaves returns an
\* error and no root; it does not abort and returns no tree.
C12_EmptyLeavesRejected ==
    (rebuilt.status # "none" /\ metaData.Leaves = <<>>) =>
        /\ rebuilt.status = "err"
        /\ rebuilt.root = NilTree

\* C13: RebuildMerkleTreeFromMetaData on a randomNum shorter than 64 bytes or
\* a publicKey that is not 64 bytes long returns an error; it neither aborts
\* nor goes on to the verification with the key material it split.
C13_WrongLengthKeyMaterial ==
    (/\ rebuilt.status # "none"
     /\ \/ Len(metaData.RandomNum) < RandSplit
        \/ Len(metaData.PublicKey) # 2 * CoordLen) =>
        /\ rebuilt.status = "err"
        /\ ~ReachesVerification(metaData)

\* C14: Serialize of a public key is 64 bytes, 32 for each coordinate, and
\* DeserializeChameleomPubKey gives the key back, also when a coordinate has
\* leading zero bytes.
C14_PublicKeyEncoding ==
    /\ enc.phase \in {"keyEncoded", "keyDecoded"} => Len(enc.bytes) = 2 * CoordLen
    /\ enc.phase = "keyDecoded" =>
           /\ ~enc.keyBack.panic
           /\ enc.keyBack.key = enc.pubKey

\* C15: Serialize of a randomness has rX in bytes [0,32), rY in bytes
\* [32,64) and s in the rest, and DeserializeChameleonRandomNum gives the
\* randomness back, also when rX or rY has leading zero bytes or s is zero.
C15_RandomnessEncoding ==
    /\ enc.phase \in {"numEncoded", "numDecoded"} =>
           /\ Len(enc.bytes) >= RandSplit
           /\ SetBytes(Slice(enc.bytes, 0, CoordLen)) = enc.randomNum.rX
           /\ SetBytes(Slice(enc.bytes, CoordLen, RandSplit)) = enc.randomNum.rY
           /\ SetBytes(Slice(enc.bytes, RandSplit, Len(enc.bytes))) = enc.randomNum.s
    /\ enc.phase = "numDecoded" =>
           /\ ~enc.numBack.panic
           /\ enc.numBack.num = enc.randomNum

\* C16: a build whose context is cancelled while blocks remain unread stops
\* before it has read all blocks, returns Cancelled and returns no tree.
C16_CancellationObserved ==
    (built.status # "none" /\ ctx.cancelled /\ ctx.at < Len(BlocksRead)) =>
        /\ built.status = "cancelled"
        /\ built.root = NilTree
        /\ Len(reader.nodes) < Len(BlocksRead)

\* C17: the root hash and the randomness BuildMerkleTree returns verify
\* against the top digest under the public key, the root hash being the
\* big-endian bytes of hX without leading zeros, also when that is shorter
\* than 32 bytes.
C17_BuildOutputVerifies ==
    built.status = "ok" =>
        /\ RootHashOf(built.root) = StripZeros(RootHashOf(built.root))
        /\ VerifyMerkleRoot(built.combined, RootHashOf(built.root), keys.pubKey,
                            built.randomNum)

\* C17 witness: a build whose root hash is shorter than 32 bytes.
C17_Witness ==
    /\ built.status = "ok"
    /\ Len(RootHashOf(built.root)) < DigestLen
    /\ Len(BlocksRead) >= 3
    /\ VerifyMerkleRoot(built.combined, RootHashOf(built.root), keys.pubKey,
                        built.randomNum)

\* C19: for a stream of one block the root has the leaf as its left child
\* and no right child, the top digest is the leaf hash, the proof generated
\* for the leaf is the empty list, and VerifyMerkleProof of the leaf with the
\* empty list returns true.
C19_SingleLeafTree ==
    (/\ Len(BlocksRead) = 1
     /\ proofRun.phase # "none"
     /\ proofRun.target = getHash(BlocksRead[1])) =>
        LET root == built.root.nodes[built.root.root]
        IN  /\ root.Left # 0
            /\ root.Right = 0
            /\ built.root.nodes[root.Left] = MerkleNode(proofRun.target, 0, 0)
            /\ built.combined = proofRun.target
            /\ proofRun.proof = <<>>
            /\ VerifyMerkleProof(RootHashOf(built.root), proofRun.target, <<>>,
                                 keys.pubKey, built.randomNum) = "true"

\* the depths of the leaves below node, from left to right, node at depth d
RECURSIVE LeafDepths(_, _, _)
LeafDepths(heap, node, d) ==
    IF node = 0 THEN <<>>
    ELSE IF heap[node].Left = 0 /\ heap[node].Right = 0 THEN <<d>>
    ELSE LeafDepths(heap, heap[node].Left, d + 1)
             \o LeafDepths(heap, heap[node].Right, d + 1)

\* the hashes of the leaves below node, from left to right
RECURSIVE LeavesInOrder(_, _)
LeavesInOrder(heap, node) ==
    IF node = 0 THEN <<>>
    ELSE IF heap[node].Left = 0 /\ heap[node].Right = 0 THEN <<heap[node].Hash>>
    ELSE LeavesInOrder(heap, heap[node].Left) \o LeavesInOrder(heap, heap[node].Right)

\* the nodes that have node as a child
Parents(heap, node) ==
    {i \in 1..Len(heap) : heap[i].Left = node \/ heap[i].Right = node}

\* C20: a built tree pairs adjacent nodes from left to right under parents
\* whose hash is the SHA-256 of the two child hashes, carries an unpaired
\* last node up unchanged and only once, and ends with at most two nodes
\* under the root; for an odd number of three or more leaves the last leaf
\* is the shallower one.
C20_TreeShape ==
    built.status = "ok" =>
        LET heap == built.root.nodes
            root == built.root.root
            depths == LeafDepths(heap, root, 0)
            L == Len(BlocksRead)
        IN  /\ LeavesInOrder(heap, root) = BlockHashes(BlocksRead)
            /\ \A i \in 1..Len(heap) :
                   /\ i # root => Cardinality(Parents(heap, i)) = 1
                   /\ (i # root /\ (heap[i].Left # 0 \/ heap[i].Right # 0)) =>
                          /\ heap[i].Left # 0
                          /\ heap[i].Right # 0
                          /\ heap[i].Left # heap[i].Right
                          /\ heap[i].Hash =
                                 getHash(heap[heap[i].Left].Hash \o heap[heap[i].Right].Hash)
            /\ Parents(heap, root) = {}
            /\ heap[root].Left # 0
            /\ (heap[root].Right # 0) <=> (L >= 2)
            /\ \A i \in 1..(L - 1) : depths[i] >= depths[i + 1]
            /\ (L >= 3 /\ L % 2 = 1) => depths[L] < depths[1]

\* C20 witness: a built tree of five leaves, the fifth directly under the
\* root.
C20_Witness ==
    /\ built.status = "ok"
    /\ Len(BlocksRead) = 5
    /\ LeafDepths(built.root.nodes, built.root.root, 0) = <<3, 3, 3, 3, 1>>

\* C21: on the same ordered list of leaf hashes the pairing loops of
\* BuildMerkleTree, UpdateMerkleTree and RebuildMerkleTreeFromMetaData give
\* the same tree shape and the same top digest, and the rebuilt root's Hash
\* is metadata.rootHash itself.
C21_SameSkeleton ==
    /\ pc \in {"sent", "rebuilt"} =>
           /\ RebuildSkeleton(metaData.Leaves) = Skeleton(metaData.Leaves)
           /\ UpdateSkeleton(metaData.Leaves) = Skeleton(metaData.Leaves)
    /\ rebuilt.status = "ok" =>
           /\ rebuilt.root = WithRootHash(Skeleton(metaData.Leaves).heap, metaData.RootHash)
           /\ RootHashOf(rebuilt.root) = metaData.RootHash

\* C21 witness: an accepted rebuild of four leaves.
C21_Witness ==
    /\ rebuilt.status = "ok"
    /\ Len(metaData.Leaves) = 4
    /\ Len(rebuilt.root.nodes) = 7

\* ceil(a / b)
CeilDiv(a, b) == (a + b - 1) \div b

\* C22: a build of a stream of |B| > 0 bytes read from its start has
\* ceil(|B| / s) leaves, leaf i being the SHA-256 of bytes
\* [i*s, min((i+1)*s, |B|)); when |B| is a multiple of s there are |B| / s
\* leaves and none for the empty read at the end.
C22_BlockSplitting ==
    (built.status # "none" /\ file.pos = 0 /\ Len(file.data) > 0) =>
        /\ built.status = "ok"
        /\ LeavesInOrder(built.root.nodes, built.root.root) =
               [i \in 1..CeilDiv(Len(file.data), blockSize) |->
                   getHash(SubSeq(file.data, (i - 1) * blockSize + 1,
                                  Min(i * blockSize, Len(file.data))))]

\* C22 witness: a build of four bytes in two full blocks.
C22_Witness ==
    /\ built.status = "ok"
    /\ file.pos = 0
    /\ Len(file.data) = 4
    /\ blockSize = 2
    /\ Len(LeavesInOrder(built.root.nodes, built.root.root)) = 2

\* the path from node down to the node at index n; <<>> when n is not below
RECURSIVE PathTo(_, _, _)
PathTo(heap, node, n) ==
    IF node = 0 THEN <<>>
    ELSE IF node = n THEN <<n>>
    ELSE LET l == PathTo(heap, heap[node].Left, n)
             r == PathTo(heap, heap[node].Right, n)
         IN  IF l # <<>> THEN <<node>> \o l
             ELSE IF r # <<>> THEN <<node>> \o r
             ELSE <<>>

\* the proof of the last node of path in the format [L0, R0, L1, R1, ...]:
\* empty on the side of the path, the sibling's hash, if any, on the other
RECURSIVE FormatOf(_, _, _)
FormatOf(heap, path, i) ==
    IF i >= Len(path) THEN <<>>
    ELSE LET parent == heap[path[i]]
             hashOf(c) == IF c = 0 THEN <<>> ELSE heap[c].Hash
         IN  (IF parent.Left = path[i + 1]
              THEN << <<>>, hashOf(parent.Right) >>
              ELSE << hashOf(parent.Left), <<>> >>)
                 \o FormatOf(heap, path, i + 1)

\* C23: the proof generated for a leaf at depth d is the flat list of
\* length 2*d, root to leaf, [L0, R0, L1, R1, ...], with the slot on the side
\* of the path empty and the sibling's hash, if there is a sibling, in the
\* other; in a tree of two leaves it is one pair with exactly one slot that
\* is not empty.
C23_ProofFormat ==
    proofRun.leaf # 0 =>
        LET path == PathTo(built.root.nodes, built.root.root, proofRun.leaf)
        IN  /\ Len(proofRun.proof) = 2 * (Len(path) - 1)
            /\ proofRun.proof = FormatOf(built.root.nodes, path, 1)
            /\ Len(BlocksRead) = 2 =>
                   /\ Len(proofRun.proof) = 2
                   /\ (proofRun.proof[1] = <<>>) # (proofRun.proof[2] = <<>>)

\* C24: in the tree of three equal blocks, with p the SHA-256 of h1 || h2,
\* the proof generated for the second leaf is [empty, h3, h1, empty] and the
\* proof generated for the third leaf is [p, empty].
C24_ThreeEqualBlocks ==
    (/\ Len(BlocksRead) = 3
     /\ BlocksRead[1] = BlocksRead[2]
     /\ BlocksRead[2] = BlocksRead[3]
     /\ proofRun.leaf \in {2, 3}) =>
        LET h == getHash(BlocksRead[1])
            p == getHash(h \o h)
        IN  /\ built.combined = p \o h
            /\ proofRun.leaf = 2 => proofRun.proof = << <<>>, h, h, <<>> >>
            /\ proofRun.leaf = 3 => proofRun.proof = <<p, <<>> >>

\* a tree without the hash of its root
Shape(tree) == [tree EXCEPT !.nodes[tree.root].Hash = <<>>]

C26_ChunkNaming ==
    \A t \in Range(sent.log) :
        ~t.err => HexEncode(getHash(t.content)) = t.name

\* C27: whenever getAction completes successfully, every merged chunk has
\* SHA-256 equal to the leaf hash it was requested under.
C27_ChunkIntegrity ==
    got.status = "ok" =>
        \A c \in Range(got.chunks) : getHash(c.content) = c.leaf

\* the distinct peers that were sent the whole of block i under its name
FullCopies(i) ==
    {t.peer : t \in {u \in Range(sent.log) :
                        /\ u.i = i
                        /\ ~u.err
                        /\ u.content = BlocksRead[i]}}

\* C28: with k peers and parameter num, sendAction transmits every chunk in
\* full to min(num, k) distinct peers, from a temp file that is open at
\* every transmission, and succeeds, for full blocks and a short last block.
C28_Replication ==
    sent.status # "none" =>
        /\ sent.status = "ok"
        /\ \A t \in Range(sent.log) : ~t.err
        /\ \A i \in 1..Len(BlocksRead) :
               Cardinality(FullCopies(i)) = Min(sent.num, sent.peers)

\* PeriodicSave is inside SaveToDB
InSaveToDB == db.saver \in {"lock", "delete", "query", "copy"}

\* C29: once CloseDB has closed the channel and the databases PeriodicSave
\* does no further SaveToDB: SaveToDB never runs against a closed database,
\* and CloseDB does not run while SaveToDB holds the lock.
C29_ShutdownOrdering ==
    /\ ~(InSaveToDB /\ (db.dbClosed \/ db.memClosed))
    /\ ~(db.closer \in {"chan", "db"} /\ db.lock = "saver")

\* C30: when SaveToDB returns nil the persistent table equals the in-memory
\* table as it was during the call; when it returns an error at any step the
\* persistent table still holds what it held before the call.
C30_SnapshotPersistence ==
    /\ db.result = "ok" => db.disk = db.during
    /\ db.result = "err" => db.disk = db.before
====
